---- MODULE Spec2Model ----
(***************************************************************************)
(* Model of .github/scripts/mobsf_ci.py: one run of main(), which drives a *)
(* MobSF instance through readiness check, upload, scan trigger,           *)
(* completion poll and MASVS fetch, classifies the report and maps the     *)
(* outcome to an exit code.                                                *)
(*                                                                         *)
(* Strings that the code inspects character by character (statuses of     *)
(* controls, environment overrides) are sequences of one-character         *)
(* strings.  JSON values are tagged records [t |-> tag, v |-> value].      *)
(* The server, the network, the file system and the clock are the          *)
(* environment: every response, failure and duration is drawn with \E.     *)
(* Time passes in the two polling loops, the only code that reads the      *)
(* clock: a request takes 0 or MaxDuration seconds, a sleep its interval.  *)
(* An exception that main does not catch ends the run in pc = "crashed",   *)
(* without a return value of main.                                         *)
(***************************************************************************)
EXTENDS Integers, Sequences, FiniteSets, TLC

(***************************************************************************)
(* Bounds of the model.                                                    *)
(***************************************************************************)
\* longest per-control list of a payload
MaxControls == 2
\* longest time (seconds) a single HTTP call takes before it answers or fails
MaxDuration == 1
\* largest poll timeout / poll delay override the environment sets in a run
MaxPollTimeout == 4
MaxPollDelay == 2

(***************************************************************************)
(* Program constants.                                                      *)
(***************************************************************************)
DEFAULT_POLL_DELAY_SECONDS == 5
DEFAULT_POLL_TIMEOUT_SECONDS == 600
\* wait_for_server(timeout=120), time.sleep(3)
READY_TIMEOUT == 120
\* a sleep of a sixtieth of the readiness timeout
READY_SLEEP_shortened == READY_TIMEOUT \div 60
READY_SLEEP == 3

(***************************************************************************)
(* JSON values: None, strings (character sequences), integers, lists and   *)
(* dicts (records whose domain is the set of keys present).                *)
(***************************************************************************)
JNull == [t |-> "null", v |-> 0]
JStr(s) == [t |-> "str", v |-> s]
JInt(n) == [t |-> "int", v |-> n]
JList(l) == [t |-> "list", v |-> l]
JDict(d) == [t |-> "dict", v |-> d]
EmptyDict == [k \in {} |-> JNull]

(***************************************************************************)
(* Characters and str methods.                                             *)
(***************************************************************************)
Upper == <<"A", "C", "D", "E", "F", "I", "L", "M", "N", "O", "P", "S", "T">>
Lower == <<"a", "c", "d", "e", "f", "i", "l", "m", "n", "o", "p", "s", "t">>
Digits == <<"0", "1", "2", "3", "4", "5", "6", "7", "8", "9">>
Whitespace == {" ", "\t", "\n"}

\* the index of c in the sequence s, 0 when it does not occur
IndexOf(s, c) ==
    IF \E i \in 1..Len(s) : s[i] = c
      THEN CHOOSE i \in 1..Len(s) : s[i] = c
      ELSE 0

\* str.lower() on one character
lower_char(c) ==
    IF IndexOf(Upper, c) # 0 THEN Lower[IndexOf(Upper, c)] ELSE c

\* str.lower()
lower(s) == [i \in 1..Len(s) |-> lower_char(s[i])]

\* str.strip(): drop leading and trailing whitespace
RECURSIVE lstrip(_)
lstrip(s) ==
    IF s # <<>> /\ Head(s) \in Whitespace THEN lstrip(Tail(s)) ELSE s

RECURSIVE rstrip(_)
rstrip(s) ==
    IF s # <<>> /\ s[Len(s)] \in Whitespace
      THEN rstrip(SubSeq(s, 1, Len(s) - 1))
      ELSE s

strip(s) == rstrip(lstrip(s))

\* str(x) for the JSON scalars of the model
RECURSIVE DecimalDigits(_)
DecimalDigits(n) ==
    IF n < 10 THEN <<Digits[n + 1]>>
    ELSE DecimalDigits(n \div 10) \o <<Digits[(n % 10) + 1]>>

str(x) ==
    CASE x.t = "str" -> x.v
      [] x.t = "int" -> IF x.v < 0 THEN <<"-">> \o DecimalDigits(-x.v)
                        ELSE DecimalDigits(x.v)
      [] x.t = "null" -> <<"N", "o", "n", "e">>
      [] OTHER -> <<"?">>

\* Python truthiness of a JSON value
truthy(x) ==
    CASE x.t = "null" -> FALSE
      [] x.t = "str" -> x.v # <<>>
      [] x.t = "int" -> x.v # 0
      [] x.t = "list" -> x.v # <<>>
      [] x.t = "dict" -> DOMAIN x.v # {}
      [] OTHER -> TRUE

\* dict.get(key) / dict.get(key, default) on a record
get(d, key, default) == IF key \in DOMAIN d THEN d[key] ELSE default

\* a or b
or(a, b) == IF truthy(a) THEN a ELSE b

(***************************************************************************)
(* int(raw_value): optional surrounding whitespace, optional sign, one or  *)
(* more decimal digits; anything else is a ValueError.                     *)
(***************************************************************************)
RECURSIVE DigitsValue(_)
DigitsValue(s) ==
    IF s = <<>> THEN 0
    ELSE 10 * DigitsValue(SubSeq(s, 1, Len(s) - 1)) + (IndexOf(Digits, s[Len(s)]) - 1)

AllDigits(s) == s # <<>> /\ \A i \in 1..Len(s) : IndexOf(Digits, s[i]) # 0

int(raw) ==
    LET body == strip(raw)
        signed == body # <<>> /\ Head(body) \in {"+", "-"}
        digits == IF signed THEN Tail(body) ELSE body
    IN  IF AllDigits(digits)
          THEN [ok |-> TRUE,
                v |-> IF signed /\ Head(body) = "-"
                        THEN -DigitsValue(digits) ELSE DigitsValue(digits)]
          ELSE [ok |-> FALSE, v |-> 0]

\* _get_positive_int_env with "parsed < 0" for "parsed <= 0"
_get_positive_int_env_accepts_zero(raw, default) ==
    IF raw = JNull THEN [value |-> default, warned |-> FALSE]
    ELSE IF ~int(raw.v).ok THEN [value |-> default, warned |-> TRUE]
    ELSE IF int(raw.v).v < 0 THEN [value |-> default, warned |-> TRUE]
    ELSE [value |-> int(raw.v).v, warned |-> FALSE]

\* _get_positive_int_env: raw is JNull (unset) or Str(characters)
_get_positive_int_env(raw, default) ==
    IF raw = JNull THEN [value |-> default, warned |-> FALSE]
    ELSE IF ~int(raw.v).ok THEN [value |-> default, warned |-> TRUE]
    ELSE IF int(raw.v).v <= 0 THEN [value |-> default, warned |-> TRUE]
    ELSE [value |-> int(raw.v).v, warned |-> FALSE]

(***************************************************************************)
(* Classification of the MASVS payload.                                    *)
(***************************************************************************)
PASS_TOKENS ==
    { <<"p", "a", "s", "s">>,
      <<"p", "a", "s", "s", "e", "d">>,
      <<"c", "o", "m", "p", "l", "i", "a", "n", "t">> }

\* entry_status without .strip()
entry_status_unstripped(entry) ==
    LET status_raw == or(or(get(entry.v, "status", JNull),
                            get(entry.v, "value", JNull)), JStr(<<>>))
    IN  lower(str(status_raw))

\* the status parse_masvs reads from one entry (a dict)
entry_status(entry) ==
    LET status_raw == or(or(get(entry.v, "status", JNull),
                            get(entry.v, "value", JNull)), JStr(<<>>))
    IN  lower(strip(str(status_raw)))

\* keep_failed with `pass` in the else branch: an entry without status is dropped
keep_failed_drops_blank(failed, entry, status) ==
    IF status # <<>> THEN Append(failed, entry) ELSE failed

\* what the branch `elif status:` / `else:` does with a non-passing entry
keep_failed(failed, entry, status) ==
    IF status # <<>> THEN Append(failed, entry) ELSE Append(failed, entry)

\* the loop with "passed += 1" outside the test of the status
RECURSIVE classify_counts_every_entry(_, _, _)
classify_counts_every_entry(entries, passed, failed) ==
    IF entries = <<>>
      THEN [exc |-> "none", passed |-> passed, failed |-> failed]
    ELSE IF Head(entries).t # "dict"
      THEN [exc |-> "AttributeError", passed |-> passed, failed |-> failed]
    ELSE IF entry_status(Head(entries)) \in PASS_TOKENS
      THEN classify_counts_every_entry(Tail(entries), passed + 1, failed)
    ELSE classify_counts_every_entry(Tail(entries), passed + 1,
                  keep_failed(failed, Head(entries), entry_status(Head(entries))))

\* the loop `for entry in controls`; entry.get on a non-dict raises
RECURSIVE classify(_, _, _)
classify(entries, passed, failed) ==
    IF entries = <<>>
      THEN [exc |-> "none", passed |-> passed, failed |-> failed]
    ELSE IF Head(entries).t # "dict"
      THEN [exc |-> "AttributeError", passed |-> passed, failed |-> failed]
    ELSE IF entry_status(Head(entries)) \in PASS_TOKENS
      THEN classify(Tail(entries), passed + 1, failed)
    ELSE classify(Tail(entries), passed,
                  keep_failed(failed, Head(entries), entry_status(Head(entries))))

\* data.get("controls") or data.get("masvs_controls") or []
controls_of(data) ==
    or(or(get(data.v, "controls", JNull), get(data.v, "masvs_controls", JNull)),
       JList(<<>>))

\* data.get("summary") or data.get("masvs_summary") or {}
aggregate_of(data) ==
    or(or(get(data.v, "summary", JNull), get(data.v, "masvs_summary", JNull)),
       JDict(EmptyDict))

\* use_aggregate without the "not controls" test
use_aggregate_whenever_present(controls, aggregate) == truthy(aggregate)

\* the guard of the aggregate branch: `if not controls and aggregate`
use_aggregate(controls, aggregate) == ~truthy(controls) /\ truthy(aggregate)

\* parse_masvs without the isinstance test: a failed field that is not a list
\* is kept as the one failure
parse_masvs_keeps_count(data, level) ==
    IF data.t # "dict"
      THEN [exc |-> "AttributeError", level |-> level, passed |-> JInt(0), failed |-> <<>>]
    ELSE
    LET controls == controls_of(data)
        loop == classify(controls.v, 0, <<>>)
        aggregate == aggregate_of(data)
    IN  IF loop.exc # "none"
          THEN [exc |-> loop.exc, level |-> level, passed |-> JInt(0), failed |-> <<>>]
        ELSE IF use_aggregate(controls, aggregate)
          THEN LET failed_controls ==
                       or(or(get(aggregate.v, "failed", JNull),
                             get(aggregate.v, "non_compliant", JNull)), JList(<<>>))
               IN  [exc |-> "none", level |-> level,
                    passed |-> or(get(aggregate.v, "pass", JInt(0)),
                                  get(aggregate.v, "passed", JInt(0))),
                    failed |-> IF failed_controls.t = "list"
                                 THEN failed_controls.v ELSE << failed_controls >>]
        ELSE [exc |-> "none", level |-> level,
              passed |-> JInt(loop.passed), failed |-> loop.failed]

\* MASVSResult(level, passed, failed), or the exception parse_masvs raises.
\* passed is a JSON value: the aggregate branch stores whatever the summary holds.
parse_masvs(data, level) ==
    IF data.t # "dict"
      THEN [exc |-> "AttributeError", level |-> level, passed |-> JInt(0), failed |-> <<>>]
    ELSE
    LET controls == controls_of(data)
        loop == classify(controls.v, 0, <<>>)
        aggregate == aggregate_of(data)
    IN  IF loop.exc # "none"
          THEN [exc |-> loop.exc, level |-> level, passed |-> JInt(0), failed |-> <<>>]
        ELSE IF use_aggregate(controls, aggregate)
          THEN LET failed_controls ==
                       or(or(get(aggregate.v, "failed", JNull),
                             get(aggregate.v, "non_compliant", JNull)), JList(<<>>))
               IN  [exc |-> "none", level |-> level,
                    passed |-> or(get(aggregate.v, "pass", JInt(0)),
                                  get(aggregate.v, "passed", JInt(0))),
                    failed |-> IF failed_controls.t = "list"
                                 THEN failed_controls.v ELSE <<>>]
        ELSE [exc |-> "none", level |-> level,
              passed |-> JInt(loop.passed), failed |-> loop.failed]

\* MASVSResult.is_compliant
is_compliant(result) == result.failed = <<>>

(***************************************************************************)
(* The environment of a run.                                               *)
(***************************************************************************)
\* status codes the server answers with; 204 is a 2xx that is not 200,
\* 401 an authentication error, 415/400 the encoding rejections
Statuses == {200, 204, 400, 401, 415, 500}

\* a response object, or the requests.RequestException raised instead of one
Response(code) == [raised |-> FALSE, status_code |-> code]
NetworkFailure == [raised |-> TRUE, status_code |-> 0]
NoResponse == [raised |-> FALSE, status_code |-> 0]
Outcomes == {Response(code) : code \in Statuses} \cup {NetworkFailure}

\* a call answers (or fails) at once, or after MaxDuration seconds
Durations == {0, MaxDuration}

\* response.raise_for_status(): HTTPError for 4xx and 5xx
raises_http_error(response) ==
    response.status_code >= 400 /\ response.status_code < 600

\* what response.json() raises on a body that is not JSON: a subclass of
\* requests.RequestException in requests >= 2.27, a plain ValueError before
JSONDecodeErrors == {"RequestException", "ValueError"}

\* bodies of the upload response: the three keys, a key missing, no keys, not JSON
NotJson == [t |-> "notjson", v |-> 0]
UploadRequired == {"hash", "scan_type", "file_name"}
FullMeta(h) == [hash |-> h, scan_type |-> "apk", file_name |-> "app.apk"]
UploadBodies ==
    { JDict(FullMeta(h)) : h \in {"abc", "def"} }
      \cup { JDict([hash |-> "abc", file_name |-> "app.apk"]),
             JDict([scan_type |-> "apk"]),
             NotJson }

\* the MOBSF_POLL_*_SECONDS overrides a run is started with
RunPollTimeouts == { JStr(DecimalDigits(MaxPollTimeout)) }
RunPollDelays == { JStr(DecimalDigits(n)) : n \in (MaxPollDelay - 1)..MaxPollDelay }

(***************************************************************************)
(* Payloads of the MASVS response.                                         *)
(***************************************************************************)
PassedEntry == JDict([control |-> JStr(<<"C", "1">>), status |-> JStr(<<"P", "a", "s", "s", "e", "d">>)])
PaddedPassEntry == JDict([control |-> JStr(<<"C", "3">>), status |-> JStr(<<" ", "P", "A", "S", "S", "\n">>)])
ValuePassEntry == JDict([control |-> JStr(<<"C", "4">>), status |-> JStr(<<>>), value |-> JStr(<<"c", "o", "m", "p", "l", "i", "a", "n", "t">>)])
FailedEntry == JDict([control |-> JStr(<<"C", "2">>), status |-> JStr(<<"F", "a", "i", "l", "e", "d">>),
                      description |-> JStr(<<"d">>), remediation |-> JStr(<<"r">>)])
MissingStatusEntry == JDict([control |-> JStr(<<"C", "5">>)])
BlankStatusEntry == JDict([control |-> JStr(<<"C", "6">>), status |-> JStr(<<" ">>), value |-> JStr(<<"p", "a", "s", "s">>)])
NumericStatusEntry == JDict([control |-> JStr(<<"C", "7">>), status |-> JInt(0), value |-> JInt(1)])
NotADictEntry == JStr(<<"C", "8">>)

Entries ==
    { PassedEntry, PaddedPassEntry, ValuePassEntry, FailedEntry,
      MissingStatusEntry, BlankStatusEntry, NumericStatusEntry, NotADictEntry }

\* all lists of at most n entries
RECURSIVE ListsUpTo(_)
ListsUpTo(n) ==
    IF n = 0 THEN { <<>> }
    ELSE ListsUpTo(n - 1)
           \cup { Append(l, e) : l \in { x \in ListsUpTo(n - 1) : Len(x) = n - 1 }, e \in Entries }

ControlLists == ListsUpTo(MaxControls)

\* aggregate summaries: lists of failed controls, counts, both spellings of the keys
Aggregates ==
    { JDict([failed |-> JList(<<FailedEntry>>), pass |-> JInt(3)]),
      JDict([non_compliant |-> JList(<<FailedEntry, MissingStatusEntry>>), passed |-> JInt(2)]),
      JDict([failed |-> JInt(2), pass |-> JInt(0), passed |-> JInt(4)]),
      JDict([failed |-> JList(<<>>), passed |-> JInt(5)]),
      JDict([failed |-> JInt(1), non_compliant |-> JList(<<FailedEntry>>)]),
      JDict(EmptyDict) }

\* payloads: a per-control list under either key, a summary under either key, both, neither
Payloads ==
    { JDict([controls |-> JList(l)]) : l \in ControlLists }
      \cup { JDict([masvs_controls |-> JList(l)]) : l \in ControlLists }
      \cup { JDict([controls |-> JList(l), summary |-> a]) : l \in ControlLists, a \in Aggregates }
      \cup { JDict([summary |-> a]) : a \in Aggregates }
      \cup { JDict([masvs_summary |-> a]) : a \in Aggregates }
      \cup { JDict(EmptyDict), JDict([report |-> JStr(<<"o", "k">>)]), JList(<<>>) }

\* the payloads the server of a full run answers with
RunPayloads ==
    { JDict([controls |-> JList(<<PassedEntry, FailedEntry>>)]),
      JDict([controls |-> JList(<<PassedEntry, PaddedPassEntry>>)]),
      JDict([controls |-> JList(<<PassedEntry, NotADictEntry>>)]),
      JDict([summary |-> JDict([failed |-> JList(<<FailedEntry>>), pass |-> JInt(3)])]),
      JDict([summary |-> JDict([failed |-> JInt(2), pass |-> JInt(0)])]),
      JDict(EmptyDict) }

(***************************************************************************)
(* State of one run of main().                                             *)
(***************************************************************************)
VARIABLES
    pc,                     \* the statement the run is at
    now,                    \* time.monotonic(), in seconds.  Its origin is unspecified and
                            \* only the polling functions read it: the first reading of a
                            \* polling function is taken as 0, and the clock is held at 0
                            \* after the function returns
    start,                  \* wait_for_server: start
    deadline,               \* wait_for_scan_completion: deadline
    environ,                \* os.environ: the two poll overrides, JNull when unset
    POLL_DELAY_SECONDS,     \* module globals, set at import from the environment
    POLL_TIMEOUT_SECONDS,
    app_state,              \* the file at --app: "exists", "missing", "unreadable"
    fail_on_violation,      \* --fail-on-violation
    output_given,           \* whether --output is given
    upload_payload,         \* upload_app: payload = response.json(), JNull before
    upload_meta,            \* what upload_app returned
    masvs_raw,              \* what request_masvs_report returned
    result,                 \* what parse_masvs returned
    exc,                    \* the exception propagating out of run_masvs_audit
    err_msg,                \* its message
    exit_code,              \* <<>> until main returns, then <<code>>
    output_file,            \* content of the --output file, <<>> until written
    stderr,                 \* lines printed to sys.stderr
    summary_file,           \* blocks appended to the CI summary sink
    summary_write,          \* what became of the summary: "none" before the attempt,
                            \* then "skipped" (no sink), "failed" (OSError) or "written"
    sent,                   \* the requests the latest step issued, in order
    last_response,          \* what the latest request of a polling loop received
    attempts,               \* requests issued so far by the polling loop in progress, kept
                            \* until the statement after the loop runs
    upload_requests,        \* requests issued to /api/v1/upload in this run
    scan_log,               \* requests to /api/v1/scan in this run, with what each received
    masvs_log,              \* requests to /api/v1/masvs in this run, with what each received
    payloads                \* the payloads of the requests issued so far to /api/v1/scan,
                            \* /api/v1/report_json and /api/v1/masvs, each with its endpoint

inputs == <<environ, POLL_DELAY_SECONDS, POLL_TIMEOUT_SECONDS, app_state, fail_on_violation,
            output_given>>
clock == <<now, start, deadline>>
values == <<upload_meta, masvs_raw, result>>
outcome == <<exc, err_msg, exit_code, stderr, summary_file, summary_write>>
traffic == <<last_response, attempts, upload_requests, scan_log, masvs_log>>
bodies == <<upload_payload, payloads>>
vars == <<pc, inputs, clock, values, outcome, output_file, sent, traffic, bodies>>

NoResult == [exc |-> "none", level |-> "", passed |-> JNull, failed |-> <<>>]
LEVEL == "L2"

\* messages of the MobSFErrors the code raises
AppMissingMsg == "App binary not found"
NotReadyMsg == "MobSF server did not become ready within 120 seconds."
MissingKeysMsg == "Upload response missing keys"
PollTimeoutMsg ==
    "Timed out waiting for MobSF to finish analysis; consider increasing MOBSF_POLL_TIMEOUT_SECONDS if binaries are large."
ViolationMsg == "MASVS compliance check failed due to policy violations."
HttpMsg(context) == context \o " failed with status"

Request(endpoint, encoding) == [endpoint |-> endpoint, encoding |-> encoding]

\* masvs_payload with the file name in the place of the scan type
masvs_payload_swapped(meta, level) ==
    [scan_type |-> meta.file_name, file_name |-> meta.file_name, hash |-> meta.hash,
     masvs_level |-> level]

\* the payloads built from upload_meta: trigger_scan, wait_for_scan_completion,
\* request_masvs_report
scan_payload(meta) ==
    [scan_type |-> meta.scan_type, file_name |-> meta.file_name, hash |-> meta.hash]
poll_payload(meta) == [hash |-> meta.hash]
masvs_payload(meta, level) ==
    [scan_type |-> meta.scan_type, file_name |-> meta.file_name, hash |-> meta.hash,
     masvs_level |-> level]
Sent(endpoint, payload) == [endpoint |-> endpoint, payload |-> payload]

Init ==
    /\ pc = "run_masvs_audit"
    /\ now = 0 /\ start = 0 /\ deadline = 0
    /\ environ \in [MOBSF_POLL_DELAY_SECONDS : RunPollDelays,
                    MOBSF_POLL_TIMEOUT_SECONDS : RunPollTimeouts]
    /\ POLL_DELAY_SECONDS =
         _get_positive_int_env(environ.MOBSF_POLL_DELAY_SECONDS,
                               DEFAULT_POLL_DELAY_SECONDS).value
    /\ POLL_TIMEOUT_SECONDS =
         _get_positive_int_env(environ.MOBSF_POLL_TIMEOUT_SECONDS,
                               DEFAULT_POLL_TIMEOUT_SECONDS).value
    /\ app_state \in {"exists", "missing", "unreadable"}
    /\ fail_on_violation \in BOOLEAN
    /\ output_given \in BOOLEAN
    /\ upload_payload = JNull
    /\ payloads = {}
    /\ upload_meta = EmptyDict
    /\ masvs_raw = JNull
    /\ result = NoResult
    /\ exc = "none" /\ err_msg = ""
    /\ exit_code = <<>>
    /\ output_file = <<>>
    /\ stderr = <<>>
    /\ summary_file = <<>>
    /\ summary_write = "none"
    /\ sent = <<>>
    /\ last_response = NoResponse
    /\ attempts = 0
    /\ upload_requests = 0
    /\ scan_log = <<>>
    /\ masvs_log = <<>>

\* raise kind(msg): the exception leaves run_masvs_audit and reaches main's handlers
Raise(kind, msg) ==
    /\ pc' = "raised"
    /\ exc' = kind
    /\ err_msg' = msg

(***************************************************************************)
(* run_masvs_audit, statement by statement.                                *)
(***************************************************************************)
\* the app_path.exists() check, the session, and the entry of wait_for_server
run_masvs_audit_begin ==
    /\ pc = "run_masvs_audit"
    /\ IF app_state = "missing"
         THEN /\ Raise("MobSFError", AppMissingMsg)
              /\ UNCHANGED clock
         ELSE /\ pc' = "wait_for_server"
              /\ start' = 0 /\ now' = 0
              /\ UNCHANGED <<deadline, exc, err_msg>>
    /\ sent' = <<>>
    /\ attempts' = 0
    /\ UNCHANGED <<inputs, values, exit_code, stderr, summary_file, summary_write, output_file,
                   last_response, upload_requests, scan_log, masvs_log>>
    /\ UNCHANGED bodies

\* is_ready accepting any response / any 2xx status
is_ready_any_response(response) == ~response.raised
is_ready_any_2xx(response) ==
    ~response.raised /\ response.status_code >= 200 /\ response.status_code < 300

\* the test the readiness loop applies to a response
is_ready(response) == ~response.raised /\ response.status_code = 200

\* one iteration of the loop of wait_for_server: the request takes d seconds
wait_for_server_poll ==
    /\ pc = "wait_for_server"
    /\ now - start < READY_TIMEOUT
    /\ \E response \in Outcomes, d \in Durations :
         /\ last_response' = response
         /\ IF is_ready(response)
              THEN pc' = "upload_app" /\ now' = 0
              ELSE pc' = "wait_for_server" /\ now' = now + d + READY_SLEEP
    /\ sent' = <<Request("ready", "none")>>
    /\ attempts' = attempts + 1
    /\ UNCHANGED <<inputs, start, deadline, values, outcome, output_file,
                   upload_requests, scan_log, masvs_log>>
    /\ UNCHANGED bodies

\* wait_for_server falling off the end of the loop without raising
wait_for_server_timeout_falls_through ==
    /\ pc = "wait_for_server"
    /\ ~(now - start < READY_TIMEOUT)
    /\ pc' = "upload_app"
    /\ sent' = <<>>
    /\ UNCHANGED <<inputs, clock, values, outcome, output_file, traffic>>
    /\ UNCHANGED bodies

\* the loop condition fails: raise MobSFError
wait_for_server_timeout ==
    /\ pc = "wait_for_server"
    /\ ~(now - start < READY_TIMEOUT)
    /\ Raise("MobSFError", NotReadyMsg)
    /\ sent' = <<>>
    /\ UNCHANGED <<inputs, clock, values, exit_code, stderr, summary_file, summary_write, output_file, traffic>>
    /\ UNCHANGED bodies

\* upload_app: open the file, post it, check the status and the keys
upload_app ==
    /\ pc = "upload_app"
    /\ IF app_state = "unreadable"
         THEN /\ Raise("OSError", "cannot open app")
              /\ sent' = <<>>
              /\ UNCHANGED <<upload_payload, upload_meta, upload_requests>>
         ELSE /\ sent' = <<Request("upload", "multipart")>>
              /\ upload_requests' = upload_requests + 1
              /\ \E response \in Outcomes, body \in UploadBodies, decode \in JSONDecodeErrors :
                   IF response.raised
                     THEN Raise("RequestException", "upload")
                          /\ UNCHANGED <<upload_payload, upload_meta>>
                   ELSE IF raises_http_error(response)
                     THEN Raise("MobSFError", HttpMsg("Upload"))
                          /\ UNCHANGED <<upload_payload, upload_meta>>
                   ELSE IF body = NotJson
                     THEN Raise(decode, "upload body")
                          /\ UNCHANGED <<upload_payload, upload_meta>>
                   ELSE IF UploadRequired \ DOMAIN body.v # {}
                     THEN /\ Raise("MobSFError", MissingKeysMsg)
                          /\ upload_payload' = body
                          /\ UNCHANGED upload_meta
                   ELSE /\ upload_payload' = body
                        /\ upload_meta' = body.v
                        /\ pc' = "trigger_scan"
                        /\ UNCHANGED <<exc, err_msg>>
    /\ attempts' = 0
    /\ UNCHANGED <<inputs, clock, masvs_raw, result, exit_code, stderr, summary_file,
                   summary_write, output_file, last_response, scan_log, masvs_log>>
    /\ UNCHANGED payloads

\* the retry statuses of one step copied to the other
scan_retry_statuses_like_masvs == {400, 415}
masvs_retry_statuses_like_scan == {415}

\* the statuses on which each step repeats its request with the form encoding
scan_retry_statuses == {415}
masvs_retry_statuses == {400, 415}

\* the requests a step with the encoding fallback issues, with what each received:
\* the JSON request, then the form request when the first response (not an
\* exception) has one of the retry statuses
fallback_log(first, second, retry_statuses) ==
    IF ~first.raised /\ first.status_code \in retry_statuses
      THEN << [encoding |-> "json", response |-> first],
              [encoding |-> "form", response |-> second] >>
      ELSE << [encoding |-> "json", response |-> first] >>

scan_requests(first, second) == fallback_log(first, second, scan_retry_statuses)
masvs_requests(first, second) == fallback_log(first, second, masvs_retry_statuses)

requests_of(log, endpoint) == [i \in 1..Len(log) |-> Request(endpoint, log[i].encoding)]
final_response(log) == log[Len(log)].response

\* trigger_scan
trigger_scan ==
    /\ pc = "trigger_scan"
    /\ \E first \in Outcomes, second \in Outcomes, body_is_json \in BOOLEAN,
          decode \in JSONDecodeErrors :
         LET log == scan_requests(first, second)
             response == final_response(log)
         IN  /\ scan_log' = log
             /\ sent' = requests_of(log, "scan")
             /\ IF response.raised
                  THEN Raise("RequestException", "scan")
                ELSE IF raises_http_error(response)
                  THEN Raise("MobSFError", HttpMsg("Scan"))
                ELSE IF ~body_is_json
                  THEN Raise(decode, "scan body")
                ELSE pc' = "wait_for_scan_completion" /\ UNCHANGED <<exc, err_msg>>
    /\ UNCHANGED <<inputs, clock, values, exit_code, stderr, summary_file, summary_write, output_file,
                   last_response, attempts, upload_requests, masvs_log>>
    /\ payloads' = payloads \cup { Sent("scan", scan_payload(upload_meta)) }
    /\ UNCHANGED upload_payload

\* entry of wait_for_scan_completion: the deadline
wait_for_scan_completion_begin ==
    /\ pc = "wait_for_scan_completion"
    /\ now' = 0
    /\ deadline' = 0 + POLL_TIMEOUT_SECONDS
    /\ attempts' = 0
    /\ last_response' = NoResponse
    /\ sent' = <<>>
    /\ pc' = "poll"
    /\ UNCHANGED <<inputs, start, values, outcome, output_file,
                   upload_requests, scan_log, masvs_log>>
    /\ UNCHANGED bodies

\* is_complete testing something no response satisfies
is_complete_never(response) == FALSE

\* the test the completion loop applies to a response
is_complete(response) == ~response.raised /\ response.status_code = 200

\* one iteration of the loop of wait_for_scan_completion
wait_for_scan_completion_poll ==
    /\ pc = "poll"
    /\ now < deadline
    /\ \E response \in Outcomes, d \in Durations :
         /\ last_response' = response
         /\ IF is_complete(response)
              THEN pc' = "request_masvs_report" /\ now' = 0 /\ deadline' = 0
              ELSE pc' = "poll" /\ now' = now + d + POLL_DELAY_SECONDS
                   /\ UNCHANGED deadline
    /\ sent' = <<Request("report_json", "json")>>
    /\ attempts' = attempts + 1
    /\ UNCHANGED <<inputs, start, values, outcome, output_file,
                   upload_requests, scan_log, masvs_log>>
    /\ payloads' = payloads \cup { Sent("report_json", poll_payload(upload_meta)) }
    /\ UNCHANGED upload_payload

\* the timeout raised one poll delay before the deadline
wait_for_scan_completion_timeout_early ==
    /\ pc = "poll"
    /\ ~(now + POLL_DELAY_SECONDS < deadline)
    /\ Raise("MobSFError", PollTimeoutMsg)
    /\ sent' = <<>>
    /\ UNCHANGED <<inputs, clock, values, exit_code, stderr, summary_file, summary_write,
                   output_file, traffic>>
    /\ UNCHANGED bodies

\* the loop condition fails: raise the timeout MobSFError
wait_for_scan_completion_timeout ==
    /\ pc = "poll"
    /\ ~(now < deadline)
    /\ Raise("MobSFError", PollTimeoutMsg)
    /\ sent' = <<>>
    /\ UNCHANGED <<inputs, clock, values, exit_code, stderr, summary_file, summary_write, output_file, traffic>>
    /\ UNCHANGED bodies

\* request_masvs_report
request_masvs_report ==
    /\ pc = "request_masvs_report"
    /\ \E first \in Outcomes, second \in Outcomes, body \in RunPayloads \cup {NotJson},
          decode \in JSONDecodeErrors :
         LET log == masvs_requests(first, second)
             response == final_response(log)
         IN  /\ masvs_log' = log
             /\ sent' = requests_of(log, "masvs")
             /\ IF response.raised
                  THEN Raise("RequestException", "masvs") /\ UNCHANGED masvs_raw
                ELSE IF raises_http_error(response)
                  THEN Raise("MobSFError", HttpMsg("MASVS report")) /\ UNCHANGED masvs_raw
                ELSE IF body = NotJson
                  THEN Raise(decode, "masvs body") /\ UNCHANGED masvs_raw
                ELSE /\ masvs_raw' = body
                     /\ pc' = "save_report"
                     /\ UNCHANGED <<exc, err_msg>>
    /\ attempts' = 0
    /\ UNCHANGED <<inputs, clock, upload_meta, result, exit_code, stderr, summary_file,
                   summary_write, output_file, last_response, upload_requests, scan_log>>
    /\ payloads' = payloads \cup { Sent("masvs", masvs_payload(upload_meta, LEVEL)) }
    /\ UNCHANGED upload_payload

\* save_report that goes on to parse_masvs without writing
save_report_skips_write ==
    /\ pc = "save_report"
    /\ pc' = "parse_masvs"
    /\ sent' = <<>>
    /\ UNCHANGED <<inputs, clock, values, outcome, output_file, traffic, bodies>>

\* if output_path: mkdir, write_text (either may raise OSError)
save_report ==
    /\ pc = "save_report"
    /\ IF output_given
         THEN \E written \in BOOLEAN :
                IF written
                  THEN /\ output_file' = <<masvs_raw>>
                       /\ pc' = "parse_masvs"
                       /\ UNCHANGED <<exc, err_msg>>
                  ELSE /\ Raise("OSError", "cannot write report")
                       /\ UNCHANGED output_file
         ELSE /\ pc' = "parse_masvs"
              /\ UNCHANGED <<output_file, exc, err_msg>>
    /\ sent' = <<>>
    /\ UNCHANGED <<inputs, clock, values, exit_code, stderr, summary_file, summary_write, traffic>>
    /\ UNCHANGED bodies

\* result = parse_masvs(masvs_raw, level)
parse_masvs_step ==
    /\ pc = "parse_masvs"
    /\ LET parsed == parse_masvs(masvs_raw, LEVEL)
       IN  IF parsed.exc # "none"
             THEN Raise(parsed.exc, "parse_masvs") /\ UNCHANGED result
             ELSE /\ result' = parsed
                  /\ pc' = "check_result"
                  /\ UNCHANGED <<exc, err_msg>>
    /\ sent' = <<>>
    /\ UNCHANGED <<inputs, clock, upload_meta, masvs_raw, exit_code, stderr, summary_file, summary_write,
                   output_file, traffic>>
    /\ UNCHANGED bodies

\* violation without the fail_on_violation test
violation_ignores_flag(res, fail) == res.failed # <<>>

\* the condition under which run_masvs_audit raises the policy violation
violation(res, fail) == res.failed # <<>> /\ fail

\* the end of run_masvs_audit: report, raise on violation, return result
check_result ==
    /\ pc = "check_result"
    /\ IF violation(result, fail_on_violation)
         THEN Raise("MobSFError", ViolationMsg)
         ELSE pc' = "main_return" /\ UNCHANGED <<exc, err_msg>>
    /\ sent' = <<>>
    /\ UNCHANGED <<inputs, clock, values, exit_code, stderr, summary_file, summary_write, output_file, traffic>>
    /\ UNCHANGED bodies

(***************************************************************************)
(* main: the handlers and the summary.                                     *)
(***************************************************************************)
\* GITHUB_STEP_SUMMARY as _append_step_summary finds it: unset, a path that can
\* be appended to, a path whose open or write raises OSError
SinkStates == {"unset", "writable", "unwritable"}

\* _append_step_summary: best effort, an OSError is swallowed
_append_step_summary(file, summary, sink) ==
    IF sink = "writable" THEN Append(file, summary) ELSE file

summary_outcome(sink) ==
    CASE sink = "unset" -> "skipped"
      [] sink = "writable" -> "written"
      [] OTHER -> "failed"

\* the block of a completed run written from the handlers
FailureSummary_with_counts(text) ==
    [status |-> "Completed with warnings", level |-> result.level,
     passed |-> result.passed, failed |-> Len(result.failed), report |-> output_given]

ErrorLine(text) == [prefix |-> "[ERROR]", text |-> text]
FailureSummary(text) == [status |-> "Failed", error |-> text]
SuccessSummary(res, report) ==
    [status |-> IF res.failed # <<>> THEN "Completed with warnings" ELSE "Success",
     level |-> res.level, passed |-> res.passed, failed |-> Len(res.failed),
     report |-> report]

\* the exceptions main catches
caught == {"MobSFError", "RequestException"}

\* what main returns from its handlers and from its last line
handler_code(kind) == 1
success_code == 0

\* except MobSFError / except requests.RequestException
main_except ==
    /\ pc = "raised"
    /\ exc \in caught
    /\ \E sink \in SinkStates :
         LET text == IF exc = "MobSFError" THEN err_msg
                     ELSE "Networking failure while communicating with MobSF"
         IN  /\ stderr' = Append(stderr, ErrorLine(text))
             /\ summary_file' = _append_step_summary(summary_file, FailureSummary(text), sink)
             /\ summary_write' = summary_outcome(sink)
    /\ exit_code' = <<handler_code(exc)>>
    /\ pc' = "done"
    /\ sent' = <<>>
    /\ UNCHANGED <<inputs, clock, values, exc, err_msg, output_file, traffic>>
    /\ UNCHANGED bodies

\* any other exception leaves main: the interpreter prints a traceback
main_uncaught ==
    /\ pc = "raised"
    /\ exc \notin caught
    /\ stderr' = Append(stderr, [prefix |-> "Traceback", text |-> exc])
    /\ pc' = "crashed"
    /\ sent' = <<>>
    /\ UNCHANGED <<inputs, clock, values, exc, err_msg, exit_code, summary_file,
                   summary_write, output_file, traffic>>
    /\ UNCHANGED bodies

\* main_return with an _append_step_summary that lets the OSError of the sink out
main_return_sink_error_propagates ==
    /\ pc = "main_return"
    /\ \E sink \in SinkStates :
         IF sink = "unwritable"
           THEN /\ Raise("OSError", "cannot write summary")
                /\ summary_write' = summary_outcome(sink)
                /\ UNCHANGED <<summary_file, exit_code>>
           ELSE /\ summary_file' = _append_step_summary(summary_file,
                                                        SuccessSummary(result, output_given), sink)
                /\ summary_write' = summary_outcome(sink)
                /\ exit_code' = <<success_code>>
                /\ pc' = "done"
                /\ UNCHANGED <<exc, err_msg>>
    /\ sent' = <<>>
    /\ UNCHANGED <<inputs, clock, values, stderr, output_file, traffic>>
    /\ UNCHANGED bodies

\* the summary of a completed run and return 0
main_return ==
    /\ pc = "main_return"
    /\ \E sink \in SinkStates :
         /\ summary_file' = _append_step_summary(summary_file,
                                                 SuccessSummary(result, output_given), sink)
         /\ summary_write' = summary_outcome(sink)
    /\ exit_code' = <<success_code>>
    /\ pc' = "done"
    /\ sent' = <<>>
    /\ UNCHANGED <<inputs, clock, values, exc, err_msg, stderr, output_file, traffic>>
    /\ UNCHANGED bodies

Next ==
    \/ run_masvs_audit_begin
    \/ wait_for_server_poll
    \/ wait_for_server_timeout
    \/ upload_app
    \/ trigger_scan
    \/ wait_for_scan_completion_begin
    \/ wait_for_scan_completion_poll
    \/ wait_for_scan_completion_timeout
    \/ request_masvs_report
    \/ save_report
    \/ parse_masvs_step
    \/ check_result
    \/ main_except
    \/ main_uncaught
    \/ main_return

Spec == Init /\ [][Next]_vars

(***************************************************************************)
(* The classification on its own: the run right after request_masvs_report *)
(* returned a payload, for every payload of the bounded set.               *)
(***************************************************************************)
InitParse ==
    /\ pc = "parse_masvs"
    /\ now = 0 /\ start = 0 /\ deadline = 0
    /\ environ = [MOBSF_POLL_DELAY_SECONDS |-> JNull, MOBSF_POLL_TIMEOUT_SECONDS |-> JNull]
    /\ POLL_DELAY_SECONDS = DEFAULT_POLL_DELAY_SECONDS
    /\ POLL_TIMEOUT_SECONDS = DEFAULT_POLL_TIMEOUT_SECONDS
    /\ app_state = "exists"
    /\ fail_on_violation \in BOOLEAN
    /\ output_given = FALSE
    /\ upload_payload = JDict(FullMeta("abc"))
    /\ payloads = { Sent("scan", scan_payload(FullMeta("abc"))),
                    Sent("report_json", poll_payload(FullMeta("abc"))),
                    Sent("masvs", masvs_payload(FullMeta("abc"), LEVEL)) }
    /\ upload_meta = FullMeta("abc")
    /\ masvs_raw \in Payloads
    /\ result = NoResult
    /\ exc = "none" /\ err_msg = ""
    /\ exit_code = <<>>
    /\ output_file = <<>>
    /\ stderr = <<>>
    /\ summary_file = <<>>
    /\ summary_write = "none"
    /\ sent = <<>>
    /\ last_response = Response(200)
    /\ attempts = 0
    /\ upload_requests = 1
    /\ scan_log = << [encoding |-> "json", response |-> Response(200)] >>
    /\ masvs_log = << [encoding |-> "json", response |-> Response(200)] >>

NextParse ==
    \/ parse_masvs_step
    \/ check_result
    \/ main_except
    \/ main_uncaught
    \/ main_return

SpecParse == InitParse /\ [][NextParse]_vars

(***************************************************************************)
(* Properties.                                                             *)
(***************************************************************************)
SentTo(step_sent, endpoint) == \E i \in 1..Len(step_sent) : step_sent[i].endpoint = endpoint
Succeeded(log) ==
    log # <<>> /\ ~final_response(log).raised /\ ~raises_http_error(final_response(log))

\* C1: when main returns, the exit code is 1 exactly when a MobSFError or a
\* network-transport failure left run_masvs_audit, which includes every run
\* whose result has a failed control while fail-on-violation is true; it is 0
\* in every other completed run, among them the runs with failed controls and
\* fail-on-violation false.
ExitCodeContract ==
    pc = "done" =>
      /\ exit_code \in { <<0>>, <<1>> }
      /\ exit_code = <<1>> <=> exc \in {"MobSFError", "RequestException"}
      /\ (result.failed # <<>> /\ fail_on_violation) =>
           (exit_code = <<1>> /\ err_msg = ViolationMsg)
      /\ (result # NoResult /\ ~(result.failed # <<>> /\ fail_on_violation)) =>
           exit_code = <<0>>
      /\ exit_code = <<0>> =>
           /\ exc = "none"
           /\ result # NoResult
           /\ result.failed = <<>> \/ ~fail_on_violation

ExitZeroWithViolations ==
    /\ pc = "done"
    /\ exit_code = <<0>>
    /\ result.failed # <<>>
    /\ ~fail_on_violation

\* C2: the steps happen in the order readiness check, upload, scan trigger,
\* completion poll, compliance fetch, classification: a step issues a request
\* (or classifies) only when every earlier step has completed successfully and
\* no later step has started, and after a fatal failure no request is issued.
StepsInOrder ==
    [][ /\ SentTo(sent', "ready") =>
             /\ pc = "wait_for_server"
             /\ upload_requests = 0 /\ scan_log = <<>> /\ masvs_log = <<>>
        /\ SentTo(sent', "upload") =>
             /\ pc = "upload_app"
             /\ last_response = Response(200)
             /\ upload_requests = 0 /\ scan_log = <<>> /\ masvs_log = <<>>
        /\ SentTo(sent', "scan") =>
             /\ pc = "trigger_scan"
             /\ upload_requests = 1 /\ UploadRequired \subseteq DOMAIN upload_meta
             /\ scan_log = <<>> /\ masvs_log = <<>>
        /\ SentTo(sent', "report_json") =>
             /\ pc = "poll"
             /\ Succeeded(scan_log) /\ masvs_log = <<>>
        /\ SentTo(sent', "masvs") =>
             /\ pc = "request_masvs_report"
             /\ last_response = Response(200)
             /\ Succeeded(scan_log) /\ masvs_log = <<>> /\ result = NoResult
        /\ result' # result =>
             /\ pc = "parse_masvs"
             /\ Succeeded(masvs_log) /\ masvs_raw # JNull
        /\ exc # "none" => sent' = <<>> /\ result' = result
      ]_vars

ClassifiedAfterAllSteps ==
    /\ pc = "done"
    /\ result # NoResult
    /\ Len(scan_log) = 2
    /\ Len(masvs_log) = 2

\* C3: the readiness probe stops at the first response with the status the
\* loop tests for (200): the step that receives it leaves the loop for the
\* upload, every other response or network failure keeps the run in the loop,
\* and no readiness request is issued once a readiness request received 200.
ReadyStopsAtFirstSuccess ==
    [][ /\ (pc = "wait_for_server" /\ SentTo(sent', "ready")) =>
             /\ sent' = << Request("ready", "none") >>
             /\ attempts' = attempts + 1
             /\ IF last_response' = Response(200)
                  THEN pc' = "upload_app" /\ exc' = "none"
                  ELSE pc' = "wait_for_server"
        /\ SentTo(sent', "ready") =>
             pc = "wait_for_server" /\ last_response # Response(200)
        /\ pc \notin {"run_masvs_audit", "wait_for_server"} => pc' # "wait_for_server"
      ]_vars

ReadyOnThirdAttempt ==
    /\ pc = "upload_app"
    /\ attempts = 3
    /\ last_response = Response(200)

\* C4: the readiness loop is left without a 200 response only by the
\* MobSFError raised once the timeout has elapsed (non-200 statuses and network
\* failures keep the loop polling); from then on no upload request is issued
\* and the run ends with exit code 1.
ReadyTimeoutIsFatal ==
    /\ [][ (pc = "wait_for_server" /\ last_response' # Response(200)) =>
             \/ pc' = "wait_for_server" /\ exc' = "none" /\ now - start < READY_TIMEOUT
             \/ /\ pc' = "raised" /\ exc' = "MobSFError" /\ err_msg' = NotReadyMsg
                /\ now - start >= READY_TIMEOUT
                /\ sent' = <<>>
         ]_vars
    /\ [](err_msg = NotReadyMsg =>
             /\ upload_requests = 0 /\ scan_log = <<>> /\ masvs_log = <<>>
             /\ pc \in {"raised", "done"}
             /\ pc = "done" => exit_code = <<1>>)

ReadyTimedOut ==
    /\ pc = "done"
    /\ err_msg = NotReadyMsg
    /\ exit_code = <<1>>
    /\ last_response = NetworkFailure

\* C5: in the completion poll a 200 response, after any number of other
\* responses and swallowed network failures, ends the loop at once: the run is
\* at the compliance fetch, no further report_json request is issued, and the
\* next request goes to the masvs endpoint.
PollReturnsOnSuccess ==
    [][ /\ (pc = "poll" /\ SentTo(sent', "report_json") /\ last_response' = Response(200)) =>
             pc' = "request_masvs_report" /\ exc' = "none"
        /\ SentTo(sent', "report_json") =>
             /\ pc = "poll" /\ last_response # Response(200)
             /\ sent' = << Request("report_json", "json") >>
        /\ pc = "request_masvs_report" =>
             sent' # <<>> /\ \A i \in 1..Len(sent') : sent'[i].endpoint = "masvs"
      ]_vars

PollSucceededAfterRetries ==
    /\ pc = "request_masvs_report"
    /\ attempts >= 2
    /\ last_response = Response(200)

\* C6: the completion poll is left without a 200 response only by the timeout
\* MobSFError that names MOBSF_POLL_TIMEOUT_SECONDS, raised when the clock has
\* reached the deadline; whatever status or network failure a poll request
\* receives, nothing is raised before; after the timeout no masvs request is
\* issued and the run ends with exit code 1.
PollTimeoutIsFatal ==
    /\ [][ (pc = "poll" /\ last_response' # Response(200)) =>
             \/ pc' = "poll" /\ exc' = "none" /\ now < deadline
             \/ /\ pc' = "raised" /\ exc' = "MobSFError" /\ err_msg' = PollTimeoutMsg
                /\ now >= deadline
                /\ deadline = POLL_TIMEOUT_SECONDS
                /\ sent' = <<>>
         ]_vars
    /\ [](err_msg = PollTimeoutMsg =>
             /\ masvs_log = <<>> /\ result = NoResult
             /\ pc \in {"raised", "done"}
             /\ pc = "done" => exit_code = <<1>>)

PollTimedOutOnAuthErrors ==
    /\ pc = "done"
    /\ err_msg = PollTimeoutMsg
    /\ exit_code = <<1>>
    /\ last_response = Response(401)

\* the shape of the log of a step with the encoding fallback: the JSON request
\* first, the form request second exactly when the first response has one of
\* the retry statuses, a MobSFError with the step's message exactly when the
\* last response has an error status
FallbackContract(log, retry_statuses, context) ==
    log # <<>> =>
      /\ Len(log) <= 2
      /\ log[1].encoding = "json"
      /\ Len(log) = 2 <=> (~log[1].response.raised /\ log[1].response.status_code \in retry_statuses)
      /\ Len(log) = 2 => log[2].encoding = "form"
      /\ (~final_response(log).raised /\ final_response(log).status_code >= 400)
           <=> (exc = "MobSFError" /\ err_msg = HttpMsg(context))

\* C7: trigger_scan sends the JSON request first and repeats it once, form
\* encoded, if and only if the first response has status 415; the last
\* response decides: an error status on it is a MobSFError, and the scan
\* endpoint receives at most two requests in a run.
ScanFallback ==
    /\ FallbackContract(scan_log, {415}, "Scan")
    /\ pc \in {"run_masvs_audit", "wait_for_server", "upload_app", "trigger_scan"} => scan_log = <<>>

ScanRetriedThenAccepted ==
    /\ Len(scan_log) = 2
    /\ scan_log[1].response = Response(415)
    /\ scan_log[2].response = Response(200)
    /\ pc = "poll"

\* C8: request_masvs_report sends the JSON request first and repeats it once,
\* form encoded, if and only if the first response has status 400 or 415; an
\* error status on the last response is a MobSFError, and the masvs endpoint
\* receives at most two requests in a run.
MasvsFallback ==
    /\ FallbackContract(masvs_log, {400, 415}, "MASVS report")
    /\ pc \in {"run_masvs_audit", "wait_for_server", "upload_app", "trigger_scan",
               "wait_for_scan_completion", "poll", "request_masvs_report"} => masvs_log = <<>>

MasvsRetriedThenAccepted ==
    /\ Len(masvs_log) = 2
    /\ masvs_log[1].response = Response(400)
    /\ masvs_log[2].response = Response(200)
    /\ pc = "save_report"

(***************************************************************************)
(* The classification, against a reading of the payload that does not use  *)
(* the operators under test: which entries of the model carry a pass       *)
(* synonym (first non-empty of status and value, trimmed, lower-cased).    *)
(***************************************************************************)
PassEntries == { PassedEntry, PaddedPassEntry, ValuePassEntry }
NotPassEntry(entry) == entry \notin PassEntries

HasControlList(payload) ==
    payload.t = "dict" /\ DOMAIN payload.v \cap {"controls", "masvs_controls"} # {}
ControlList(payload) ==
    IF "controls" \in DOMAIN payload.v THEN payload.v.controls.v
    ELSE payload.v.masvs_controls.v
HasSummary(payload) ==
    \E k \in DOMAIN payload.v \cap {"summary", "masvs_summary"} : payload.v[k] # JDict(EmptyDict)

AllPass(list) == \A i \in 1..Len(list) : list[i] \in PassEntries
Classified == result # NoResult /\ HasControlList(masvs_raw)

\* C9 as stated: for every per-control list whose entries all carry a pass
\* synonym, failed is empty, is_compliant is true and passed is the number of
\* entries.
AllPassIsCompliant ==
    (Classified /\ AllPass(ControlList(masvs_raw))) =>
      /\ result.failed = <<>>
      /\ is_compliant(result)
      /\ result.passed = JInt(Len(ControlList(masvs_raw)))

\* C9, amended: the same for every such list that is non-empty, and for the
\* empty list when the payload carries no non-empty aggregate summary (an
\* empty per-control list next to a summary is classified from the summary).
AllPassNonEmptyIsCompliant ==
    (/\ Classified
     /\ AllPass(ControlList(masvs_raw))
     /\ ControlList(masvs_raw) # <<>> \/ ~HasSummary(masvs_raw)) =>
      /\ result.failed = <<>>
      /\ is_compliant(result)
      /\ result.passed = JInt(Len(ControlList(masvs_raw)))

AllPassListClassified ==
    /\ pc = "done"
    /\ Classified
    /\ ControlList(masvs_raw) = << PaddedPassEntry, ValuePassEntry >>
    /\ HasSummary(masvs_raw)
    /\ exit_code = <<0>>
    /\ fail_on_violation

\* C10: for every per-control list with at least one entry that carries no
\* pass synonym (another status, an empty or a missing one), failed is exactly
\* the non-passing entries, unmodified and in their order in the list, no
\* passing entry is in failed, and is_compliant is false.
FailedKeptVerbatim ==
    (Classified /\ ~AllPass(ControlList(masvs_raw))) =>
      /\ result.failed = SelectSeq(ControlList(masvs_raw), NotPassEntry)
      /\ ~is_compliant(result)

MissingStatusKept ==
    /\ pc = "done"
    /\ Classified
    /\ ControlList(masvs_raw) = << MissingStatusEntry, PassedEntry >>
    /\ result.failed = << MissingStatusEntry >>

(***************************************************************************)
(* The aggregate summary of a payload, read off the payload itself.        *)
(***************************************************************************)
OnlySummary(payload) ==
    /\ payload.t = "dict"
    /\ ~HasControlList(payload)
    /\ DOMAIN payload.v \cap {"summary", "masvs_summary"} # {}
SummaryOf(payload) ==
    IF "summary" \in DOMAIN payload.v THEN payload.v.summary ELSE payload.v.masvs_summary

IsNonEmptyList(d, k) == k \in DOMAIN d /\ d[k].t = "list" /\ d[k].v # <<>>
IsSet(d, k) == k \in DOMAIN d /\ d[k] \notin {JNull, JInt(0), JList(<<>>)}
\* the failed field when it is set, else the non_compliant field; a list counts
SummaryFailedList(a) ==
    IF IsSet(a.v, "failed")
      THEN (IF IsNonEmptyList(a.v, "failed") THEN a.v.failed.v ELSE <<>>)
    ELSE IF IsNonEmptyList(a.v, "non_compliant") THEN a.v.non_compliant.v
    ELSE <<>>
SummaryPassCount(a) ==
    IF "pass" \in DOMAIN a.v /\ a.v.pass # JInt(0) THEN a.v.pass
    ELSE IF "passed" \in DOMAIN a.v THEN a.v.passed
    ELSE JInt(0)

PassCount(list) == Cardinality({ i \in 1..Len(list) : list[i] \in PassEntries })

\* C11: the two response shapes are mutually exclusive. Given only an
\* aggregate summary (no per-control list), passed and failed are the
\* summary's pass/passed count and its failed/non_compliant list; given a
\* non-empty per-control list, passed and failed are what the list alone
\* gives, whatever summary stands next to it.
ShapesMutuallyExclusive ==
    /\ (result # NoResult /\ OnlySummary(masvs_raw)) =>
         /\ result.passed = SummaryPassCount(SummaryOf(masvs_raw))
         /\ result.failed = SummaryFailedList(SummaryOf(masvs_raw))
    /\ (Classified /\ ControlList(masvs_raw) # <<>>) =>
         /\ result.passed = JInt(PassCount(ControlList(masvs_raw)))
         /\ result.failed = SelectSeq(ControlList(masvs_raw), NotPassEntry)

SummaryIgnoredNextToList ==
    /\ pc = "done"
    /\ Classified
    /\ ControlList(masvs_raw) = << PassedEntry >>
    /\ HasSummary(masvs_raw)
    /\ SummaryOf(masvs_raw) = JDict([failed |-> JList(<<FailedEntry>>), pass |-> JInt(3)])
    /\ result.passed = JInt(1)
    /\ result.failed = <<>>
    /\ exit_code = <<0>>

(***************************************************************************)
(* The run that ends in a policy violation.                                *)
(***************************************************************************)
OnePassedOneFailed == JDict([controls |-> JList(<< PassedEntry, FailedEntry >>)])

\* C12: when a run finds failed controls and fail-on-violation is true, the
\* result is not compliant, the exit code is 1 and what the CI summary
\* receives is a block with a failed status and the error, without the
\* pass/fail counts; for the payload of one passed and one failed control the
\* result is passed = 1 and failed = [the failed control].
ViolationFailsRun ==
    (pc = "done" /\ result # NoResult /\ result.failed # <<>> /\ fail_on_violation) =>
      /\ ~is_compliant(result)
      /\ exit_code = <<1>>
      /\ exc = "MobSFError" /\ err_msg = ViolationMsg
      /\ stderr = << ErrorLine(ViolationMsg) >>
      /\ Len(summary_file) = (IF summary_write = "written" THEN 1 ELSE 0)
      /\ \A i \in 1..Len(summary_file) :
           /\ DOMAIN summary_file[i] = {"status", "error"}
           /\ summary_file[i].status = "Failed"
           /\ summary_file[i].error = ViolationMsg
      /\ masvs_raw = OnePassedOneFailed =>
           /\ result.passed = JInt(1)
           /\ result.failed = << FailedEntry >>

ViolationRecordedAsFailed ==
    /\ pc = "done"
    /\ masvs_raw = OnePassedOneFailed
    /\ fail_on_violation
    /\ result.passed = JInt(1)
    /\ exit_code = <<1>>
    /\ summary_write = "written"
    /\ summary_file # <<>>

(***************************************************************************)
(* The import of the module: the two poll settings are read from the       *)
(* environment, for every override of a bounded set of texts.              *)
(***************************************************************************)
MaxEnvValue == 11

\* the overrides, each with what it denotes: unset, an integer n written in
\* one of the ways int() accepts, or a text int() rejects
EnvCases ==
    { [raw |-> JNull, kind |-> "unset", n |-> 0] }
      \cup { [raw |-> JStr(DecimalDigits(n)), kind |-> "int", n |-> n] : n \in 0..MaxEnvValue }
      \cup { [raw |-> JStr(<<"-">> \o DecimalDigits(n)), kind |-> "int", n |-> -n] :
               n \in 0..MaxEnvValue }
      \cup { [raw |-> JStr(<<"+">> \o DecimalDigits(n)), kind |-> "int", n |-> n] :
               n \in 0..MaxEnvValue }
      \cup { [raw |-> JStr(<<" ">> \o DecimalDigits(n) \o <<"\n">>), kind |-> "int", n |-> n] :
               n \in 0..MaxEnvValue }
      \cup { [raw |-> JStr(<<"0">> \o DecimalDigits(n)), kind |-> "int", n |-> n] :
               n \in 0..MaxEnvValue }
      \cup { [raw |-> JStr(t), kind |-> "text", n |-> 0] :
               t \in { <<>>, <<" ">>, <<"a", "b", "c">>, <<"1", ".", "5">>, <<"5", "s">>,
                       <<"-", " ", "3">>, <<"-", "-", "3">>, <<"+">> } }
EnvValues == { c.raw : c \in EnvCases }

Warning(env_name) == [prefix |-> "Warning:", text |-> env_name]

\* POLL_DELAY_SECONDS = _get_positive_int_env(...); POLL_TIMEOUT_SECONDS = ...
load_poll_settings ==
    /\ pc = "import"
    /\ LET delay == _get_positive_int_env(environ.MOBSF_POLL_DELAY_SECONDS,
                                          DEFAULT_POLL_DELAY_SECONDS)
           timeout == _get_positive_int_env(environ.MOBSF_POLL_TIMEOUT_SECONDS,
                                            DEFAULT_POLL_TIMEOUT_SECONDS)
       IN  /\ POLL_DELAY_SECONDS' = delay.value
           /\ POLL_TIMEOUT_SECONDS' = timeout.value
           /\ stderr' = stderr
                \o (IF delay.warned THEN << Warning("MOBSF_POLL_DELAY_SECONDS") >> ELSE <<>>)
                \o (IF timeout.warned THEN << Warning("MOBSF_POLL_TIMEOUT_SECONDS") >> ELSE <<>>)
    /\ pc' = "run_masvs_audit"
    /\ UNCHANGED <<environ, app_state, fail_on_violation, output_given, clock, values, exc,
                   err_msg, exit_code, summary_file, summary_write, output_file, sent, traffic>>
    /\ UNCHANGED bodies

InitEnv ==
    /\ pc = "import"
    /\ now = 0 /\ start = 0 /\ deadline = 0
    /\ environ \in [MOBSF_POLL_DELAY_SECONDS : EnvValues, MOBSF_POLL_TIMEOUT_SECONDS : EnvValues]
    /\ POLL_DELAY_SECONDS = JNull
    /\ POLL_TIMEOUT_SECONDS = JNull
    /\ app_state = "exists"
    /\ fail_on_violation = TRUE
    /\ output_given = FALSE
    /\ upload_payload = JNull
    /\ payloads = {}
    /\ upload_meta = EmptyDict
    /\ masvs_raw = JNull
    /\ result = NoResult
    /\ exc = "none" /\ err_msg = ""
    /\ exit_code = <<>>
    /\ output_file = <<>>
    /\ stderr = <<>>
    /\ summary_file = <<>>
    /\ summary_write = "none"
    /\ sent = <<>>
    /\ last_response = NoResponse
    /\ attempts = 0
    /\ upload_requests = 0
    /\ scan_log = <<>>
    /\ masvs_log = <<>>

NextEnv == load_poll_settings

SpecEnv == InitEnv /\ [][NextEnv]_vars

\* what an override must give: its integer when that is positive, else the default
ExpectedSetting(c, default) == IF c.kind = "int" /\ c.n > 0 THEN c.n ELSE default
ExpectedWarning(c) == c.kind = "text" \/ (c.kind = "int" /\ c.n <= 0)

\* C13: for every value of the two overrides the setting read at import is a
\* positive integer and nothing is raised: the default when the override is
\* unset, the override's integer when it parses to a positive one, and the
\* default (5 s for the delay, 600 s for the timeout) with a warning when it
\* is not numeric or not positive.
SettingsArePositive ==
    pc # "import" =>
      /\ exc = "none"
      /\ POLL_DELAY_SECONDS \in Nat /\ POLL_DELAY_SECONDS > 0
      /\ POLL_TIMEOUT_SECONDS \in Nat /\ POLL_TIMEOUT_SECONDS > 0
      /\ \A c \in EnvCases :
           /\ environ.MOBSF_POLL_DELAY_SECONDS = c.raw =>
                /\ POLL_DELAY_SECONDS = ExpectedSetting(c, 5)
                /\ ExpectedWarning(c) <=>
                     \E i \in 1..Len(stderr) : stderr[i] = Warning("MOBSF_POLL_DELAY_SECONDS")
           /\ environ.MOBSF_POLL_TIMEOUT_SECONDS = c.raw =>
                /\ POLL_TIMEOUT_SECONDS = ExpectedSetting(c, 600)
                /\ ExpectedWarning(c) <=>
                     \E i \in 1..Len(stderr) : stderr[i] = Warning("MOBSF_POLL_TIMEOUT_SECONDS")

ZeroDelayGivesDefault ==
    /\ pc = "run_masvs_audit"
    /\ environ.MOBSF_POLL_DELAY_SECONDS = JStr(<<"0">>)
    /\ environ.MOBSF_POLL_TIMEOUT_SECONDS = JStr(<<" ", "1", "1", "\n">>)
    /\ POLL_DELAY_SECONDS = 5
    /\ POLL_TIMEOUT_SECONDS = 11
    /\ stderr = << Warning("MOBSF_POLL_DELAY_SECONDS") >>

(***************************************************************************)
(* How a failed run is reported.                                           *)
(***************************************************************************)
Ended == pc \in {"done", "crashed"}
\* the fatal paths the property lists: the MobSFErrors, the network failure,
\* the failed write of the raw report, the malformed payload entry
ListedFatalPath ==
    \/ exc \in {"MobSFError", "RequestException"}
    \/ exc = "OSError" /\ err_msg = "cannot write report"
    \/ exc = "AttributeError" /\ err_msg = "parse_masvs"

\* C14: every run that ends on a fatal path (missing app file, readiness
\* timeout, upload/scan/fetch failure, malformed upload response, poll
\* timeout, policy violation, network failure, failure to write the raw
\* report, malformed payload entries) has printed an error line with the
\* "[ERROR]" prefix and has attempted to append a failure summary to the CI
\* sink.
FatalPathsReported ==
    (Ended /\ ListedFatalPath) =>
      /\ \E i \in 1..Len(stderr) : stderr[i].prefix = "[ERROR]"
      /\ summary_write # "none"

\* C15: what becomes of the CI summary never changes the outcome of the run.
\* From the end of run_masvs_audit main goes to its return in one step that
\* leaves the classification result as it is and returns 0 after a completed
\* run, 1 after a caught exception, whether the summary is written, its write
\* fails or it is skipped for want of a sink.
SinkNeverChangesOutcome ==
    [][/\ pc = "main_return" =>
            /\ pc' = "done"
            /\ exit_code' = <<0>>
            /\ summary_write' \in {"written", "failed", "skipped"}
            /\ <<result, exc>>' = <<result, exc>>
       /\ (pc = "raised" /\ exc \in {"MobSFError", "RequestException"}) =>
            /\ pc' = "done"
            /\ exit_code' = <<1>>
            /\ summary_write' \in {"written", "failed", "skipped"}
            /\ <<result, exc>>' = <<result, exc>>
       /\ (pc' = "done" /\ summary_write' # "written") => summary_file' = summary_file]_vars

ExitZeroWithoutSummary ==
    /\ pc = "done"
    /\ summary_write = "failed"
    /\ summary_file = <<>>
    /\ exit_code = <<0>>
    /\ result # NoResult

(***************************************************************************)
(* The upload metadata through the run.                                    *)
(***************************************************************************)
CarriedKeys(endpoint) ==
    IF endpoint = "report_json" THEN {"hash"} ELSE {"hash", "scan_type", "file_name"}

\* C16: when the upload response lacks one of hash, scan_type, file_name the
\* run fails with the MobSFError of the missing keys (exit code 1) and no scan
\* request is issued; otherwise every scan, completion-poll and compliance
\* request of the run carries exactly the hash, scan_type and file_name the
\* upload returned, and the metadata the run holds stays what the upload
\* returned.
UploadMetadataCarried ==
    /\ (upload_payload # JNull /\ {"hash", "scan_type", "file_name"} \ DOMAIN upload_payload.v # {}) =>
         /\ pc \in {"raised", "done"}
         /\ exc = "MobSFError" /\ err_msg = MissingKeysMsg
         /\ pc = "done" => exit_code = <<1>>
         /\ scan_log = <<>> /\ payloads = {}
    /\ \A p \in payloads :
         /\ upload_payload # JNull
         /\ DOMAIN p.payload \cap {"hash", "scan_type", "file_name"} = CarriedKeys(p.endpoint)
         /\ \A k \in CarriedKeys(p.endpoint) : p.payload[k] = upload_payload.v[k]
    /\ upload_meta # EmptyDict =>
         /\ upload_payload # JNull
         /\ \A k \in {"hash", "scan_type", "file_name"} : upload_meta[k] = upload_payload.v[k]

MetadataSentInAllRequests ==
    /\ pc = "done"
    /\ exit_code = <<0>>
    /\ upload_payload = JDict(FullMeta("def"))
    /\ { p.endpoint : p \in payloads } = {"scan", "report_json", "masvs"}
    /\ \A p \in payloads : p.payload.hash = "def"

(***************************************************************************)
(* The raw report file.                                                    *)
(***************************************************************************)
Fetched == masvs_raw # JNull
Interpreting == pc \in {"parse_masvs", "check_result", "main_return"} \/ result # NoResult
WriteFailed == exc = "OSError" /\ err_msg = "cannot write report"

exit_status == IF pc = "done" THEN exit_code[1] ELSE IF pc = "crashed" THEN 1 ELSE -1

Ceil(a, b) == (a + b - 1) \div b
InReadyLoop == pc \in {"wait_for_server", "upload_app"} \/ err_msg = NotReadyMsg
InPollLoop == pc \in {"poll", "request_masvs_report"} \/ err_msg = PollTimeoutMsg

\* the statements from the last to the first, and a time no clock reading exceeds
StatementsBackwards ==
    << "crashed", "done", "raised", "main_return", "check_result", "parse_masvs",
       "save_report", "request_masvs_report", "poll", "wait_for_scan_completion",
       "trigger_scan", "upload_app", "wait_for_server", "run_masvs_audit", "import" >>
Horizon == READY_TIMEOUT + MaxPollTimeout + 2 * (READY_SLEEP + MaxPollDelay + MaxDuration)
Measure == IndexOf(StatementsBackwards, pc) * Horizon - now

\* some statement can run.  parse_masvs_step has no guard but its place in the
\* run: at "parse_masvs" it either assigns the result or raises.
CanStep ==
    \/ pc = "parse_masvs"
    \/ ENABLED (\/ run_masvs_audit_begin
                \/ wait_for_server_poll
                \/ wait_for_server_timeout
                \/ upload_app
                \/ trigger_scan
                \/ wait_for_scan_completion_begin
                \/ wait_for_scan_completion_poll
                \/ wait_for_scan_completion_timeout
                \/ request_masvs_report
                \/ save_report
                \/ check_result
                \/ main_except
                \/ main_uncaught
                \/ main_return)

\* C18: every run ends, with exit status 0 or 1, and its two polling loops
\* issue finitely many requests: the readiness probe at most
\* ceil(timeout / 3) and the completion poll at most
\* ceil(poll timeout / poll delay).  Each unsuccessful iteration advances the
\* clock by at least the sleep interval, so every step lowers the measure.
RunTerminates ==
    /\ [](Ended \/ CanStep)
    /\ [](Measure > 0)
    /\ [][Measure' < Measure]_vars
    /\ [][(pc = pc' /\ pc = "wait_for_server") => now' >= now + 3]_vars
    /\ [][(pc = pc' /\ pc = "poll") => now' >= now + POLL_DELAY_SECONDS]_vars
    /\ [](Ended => exit_status \in {0, 1})
    /\ [](InReadyLoop => attempts <= Ceil(120, 3))
    /\ [](InPollLoop => attempts <= Ceil(POLL_TIMEOUT_SECONDS, POLL_DELAY_SECONDS))

ReadyLoopExhausted ==
    /\ pc = "done"
    /\ err_msg = NotReadyMsg
    /\ attempts = Ceil(120, 3)
    /\ exit_status = 1

(***************************************************************************)
(* Every entry of a per-control list is classified once.                   *)
(***************************************************************************)
Occurrences(list, entry) == Cardinality({ i \in 1..Len(list) : list[i] = entry })

\* C19: for every non-empty per-control list, passed plus the length of
\* failed is the number of entries, passed is the number of entries with a
\* pass synonym, and every other entry is in failed as many times as it is in
\* the list: none is dropped and none is counted twice.
EachEntryClassifiedOnce ==
    (Classified /\ ControlList(masvs_raw) # <<>>) =>
      /\ result.passed.t = "int"
      /\ result.passed.v + Len(result.failed) = Len(ControlList(masvs_raw))
      /\ result.passed.v = PassCount(ControlList(masvs_raw))
      /\ \A entry \in Entries :
           Occurrences(result.failed, entry) =
             (IF entry \in PassEntries THEN 0 ELSE Occurrences(ControlList(masvs_raw), entry))

RepeatedEntryKeptTwice ==
    /\ pc = "done"
    /\ Classified
    /\ ControlList(masvs_raw) = << NumericStatusEntry, NumericStatusEntry >>
    /\ result.passed = JInt(0)
    /\ Len(result.failed) = 2

(***************************************************************************)
(* The classification fails open.                                          *)
(***************************************************************************)
NonPassInList(payload) ==
    /\ HasControlList(payload)
    /\ \E i \in 1..Len(ControlList(payload)) : NotPassEntry(ControlList(payload)[i])
FailedListInSummary(payload) ==
    /\ ~HasControlList(payload) \/ ControlList(payload) = <<>>
    /\ \E k \in DOMAIN payload.v \cap {"summary", "masvs_summary"} :
         \E f \in {"failed", "non_compliant"} : IsNonEmptyList(payload.v[k].v, f)

\* C20: the result of parse_masvs is not compliant only when a non-empty
\* per-control list has an entry without a pass synonym, or when the list is
\* empty or absent and the summary's failed or non_compliant field is a
\* non-empty list.  For every other payload (empty, of an unknown shape, with
\* a summary whose failed field is a count) the result is compliant, and a
\* compliant result ends the run with exit code 0 even with fail-on-violation.
FailsOpen ==
    (result # NoResult /\ masvs_raw.t = "dict") =>
      /\ ~is_compliant(result) =>
           NonPassInList(masvs_raw) \/ FailedListInSummary(masvs_raw)
      /\ ~(NonPassInList(masvs_raw) \/ FailedListInSummary(masvs_raw)) =>
           /\ result.failed = <<>>
           /\ pc \in {"check_result", "main_return", "done"}
           /\ pc = "done" => exit_code = <<0>>
      /\ (is_compliant(result) /\ pc = "done") => exit_code = <<0>>

FailedCountIsCompliant ==
    /\ pc = "done"
    /\ fail_on_violation
    /\ masvs_raw = JDict([summary |-> JDict([failed |-> JInt(2), pass |-> JInt(0),
                                              passed |-> JInt(4)])])
    /\ result.failed = <<>>
    /\ result.passed = JInt(4)
    /\ exit_code = <<0>>

====
